---- MODULE Spec2Model ----
(***************************************************************************)
(* A model of the Today/Jira plugin of obsidian-utilities (src/main.ts):   *)
(* the editor-change handler (lookup pass, escape pass, literal pass), the *)
(* asynchronous expansion of [[JIRA:...]] placeholders and the file-rename *)
(* handler.  Text is a sequence of one-character strings; offsets are      *)
(* 0-based as in the source, so the character at offset i of s is s[i+1].  *)
(***************************************************************************)
EXTENDS Integers, Sequences, FiniteSets, TLC

VARIABLES
    buffer,      \* the editor's lines: a sequence of lines (editor.getLine / setLine)
    cursor,      \* editor.getCursor(): [line |-> 0-based index, ch |-> 0-based offset]
    jiraClient,  \* TodayPlugin.jiraClient: TRUE when a client is configured, FALSE for null
    dateFormat,  \* settings.dateFormat
    now,         \* the date new Date() yields: [year, month (0-based), day]
    pending,     \* the lookups awaited by expandJiraLink, in the order they were started
    started,     \* the number of lookups started so far
    unescaped,   \* history: where the last escape pass left bare trigger text on the cursor line
    ev,          \* history: what the last operation read and did
    file,        \* the TAbstractFile handed to handleFileRename: [name, path]
    rn,          \* history: what the last handleFileRename did
    cache,       \* JiraClient.cache: the entry of each cache key, NoEntry when the Map has none
    timers,      \* the eviction callbacks scheduled with setTimeout, in the order they fire
    searches,    \* the searchIssues calls that missed the cache and await their request
    calls        \* the number of searchIssues calls made so far

\* The state of the JiraClient and of its timers.
clientVars == <<cache, timers, searches, calls>>

vars == <<buffer, cursor, jiraClient, dateFormat, now, pending, started, unescaped, ev, file, rn,
          clientVars>>

edVars == <<buffer, cursor, jiraClient, dateFormat, now, pending, started, unescaped, ev>>

fileVars == <<file, rn>>

----------------------------------------------------------------------------
(* Bounds of the model. *)

\* The lines the model starts from hold at most this many literal segments (triggers,
\* escaped triggers, a word character, a space) and at most one lookup placeholder
\* among them; the file names hold one literal segment more.
MaxSegs == 2

\* At most this many lookups are started in one behaviour.
MaxLookups == 1

----------------------------------------------------------------------------
(* Characters and strings. *)

UpperChars ==
    {"A","B","C","D","E","F","G","H","I","J","K","L","M",
     "N","O","P","Q","R","S","T","U","V","W","X","Y","Z"}

LowerChars ==
    {"a","b","c","d","e","f","g","h","i","j","k","l","m",
     "n","o","p","q","r","s","t","u","v","w","x","y","z"}

DigitChars == {"0","1","2","3","4","5","6","7","8","9"}

LetterChars == UpperChars \cup LowerChars

WordChars == LetterChars \cup DigitChars \cup {"_"}

\* \w of a JavaScript regular expression.
IsWordChar(c) == c \in WordChars

\* String.prototype.toLowerCase on one character.
LowerOf(c) ==
    CASE c = "A" -> "a" [] c = "B" -> "b" [] c = "C" -> "c" [] c = "D" -> "d"
      [] c = "E" -> "e" [] c = "F" -> "f" [] c = "G" -> "g" [] c = "H" -> "h"
      [] c = "I" -> "i" [] c = "J" -> "j" [] c = "K" -> "k" [] c = "L" -> "l"
      [] c = "M" -> "m" [] c = "N" -> "n" [] c = "O" -> "o" [] c = "P" -> "p"
      [] c = "Q" -> "q" [] c = "R" -> "r" [] c = "S" -> "s" [] c = "T" -> "t"
      [] c = "U" -> "u" [] c = "V" -> "v" [] c = "W" -> "w" [] c = "X" -> "x"
      [] c = "Y" -> "y" [] c = "Z" -> "z" [] OTHER -> c

toLowerCase(s) == [i \in 1..Len(s) |-> LowerOf(s[i])]

Min(a, b) == IF a < b THEN a ELSE b

Max(a, b) == IF a > b THEN a ELSE b

\* s.substring(a, b) for 0 <= a.
substring(s, a, b) == SubSeq(s, Min(a, Len(s)) + 1, Min(b, Len(s)))

\* s.substring(a)
substringFrom(s, a) == SubSeq(s, Min(a, Len(s)) + 1, Len(s))

\* pat occurs in s at offset i.
IsAt(s, i, pat) ==
    /\ i >= 0
    /\ i + Len(pat) <= Len(s)
    /\ s[i + 1] = pat[1]
    /\ SubSeq(s, i + 1, i + Len(pat)) = pat

\* \b of a regular expression at offset i of s (between s[i] and s[i+1]).
WordBoundary(s, i) ==
    LET before == i >= 1 /\ i <= Len(s) /\ IsWordChar(s[i])
        after  == i >= 0 /\ i < Len(s) /\ IsWordChar(s[i + 1])
    IN  before # after

\* s.indexOf(pat, i): the least offset from i on where pat occurs, -1 when there is none.
RECURSIVE indexOfFrom(_, _, _)
indexOfFrom(s, pat, i) ==
    IF i + Len(pat) > Len(s) THEN -1
    ELSE IF IsAt(s, i, pat) THEN i
    ELSE indexOfFrom(s, pat, i + 1)

\* s.indexOf(pat)
indexOf(s, pat) == indexOfFrom(s, pat, 0)

\* String.prototype.trim
IsSpace(c) == c = " "

RECURSIVE trimStart(_)
trimStart(s) == IF s # <<>> /\ IsSpace(s[1]) THEN trimStart(Tail(s)) ELSE s

RECURSIVE trimEnd(_)
trimEnd(s) ==
    IF s # <<>> /\ IsSpace(s[Len(s)]) THEN trimEnd(SubSeq(s, 1, Len(s) - 1)) ELSE s

trim(s) == trimEnd(trimStart(s))

\* The replacement text of s.replace(<string>, repl): GetSubstitution, where $$ is a
\* dollar sign, $& the matched text, $` the text before it and $' the text after it.
RECURSIVE GetSubstitution(_, _, _, _)
GetSubstitution(repl, matched, before, after) ==
    IF repl = <<>> THEN <<>>
    ELSE IF repl[1] = "$" /\ Len(repl) >= 2 /\ repl[2] \in {"$", "&", "`", "'"}
    THEN (CASE repl[2] = "$" -> <<"$">>
            [] repl[2] = "&" -> matched
            [] repl[2] = "`" -> before
            [] repl[2] = "'" -> after)
         \o GetSubstitution(SubSeq(repl, 3, Len(repl)), matched, before, after)
    ELSE <<repl[1]>> \o GetSubstitution(Tail(repl), matched, before, after)

\* s.replace(pat, repl) with a string pattern: the first occurrence only.
replaceString(s, pat, repl) ==
    LET p == indexOf(s, pat)
    IN  IF p < 0 THEN s
        ELSE LET before == substring(s, 0, p)
                 after  == substringFrom(s, p + Len(pat))
             IN  before \o GetSubstitution(repl, pat, before, after) \o after

----------------------------------------------------------------------------
(* formatDate *)

DigitOf(d) ==
    CASE d = 0 -> "0" [] d = 1 -> "1" [] d = 2 -> "2" [] d = 3 -> "3" [] d = 4 -> "4"
      [] d = 5 -> "5" [] d = 6 -> "6" [] d = 7 -> "7" [] d = 8 -> "8" [] d = 9 -> "9"

\* String(n) for n >= 0.
RECURSIVE StringOf(_)
StringOf(n) == IF n < 10 THEN <<DigitOf(n)>> ELSE StringOf(n \div 10) \o <<DigitOf(n % 10)>>

\* The padding left out.
padStart2_None(s) == s

\* s.padStart(2, '0')
padStart2(s) == IF Len(s) < 2 THEN <<"0">> \o s ELSE s

\* The formatted date being the text of a trigger.
formatDate_AsTrigger(date, fmt) == <<"@", "t", "o", "d", "a", "y">>

formatDate(date, fmt) ==
    LET year  == StringOf(date.year)
        month == padStart2(StringOf(date.month + 1))
        day   == padStart2(StringOf(date.day))
    IN  CASE fmt = "MM-DD-YYYY" -> month \o <<"-">> \o day \o <<"-">> \o year
          [] fmt = "DD-MM-YYYY" -> day \o <<"-">> \o month \o <<"-">> \o year
          [] fmt = "MM/DD/YYYY" -> month \o <<"/">> \o day \o <<"/">> \o year
          [] fmt = "DD/MM/YYYY" -> day \o <<"/">> \o month \o <<"/">> \o year
          [] OTHER -> year \o <<"-">> \o month \o <<"-">> \o day

----------------------------------------------------------------------------
(* The trigger patterns. *)

BraceCall == <<"{","{","t","o","d","a","y","(",")","}","}">>

BareCall == <<"t","o","d","a","y","(",")">>

AtTag == <<"@","t","o","d","a","y">>

\* The bare text of pattern k, in the order of escapePatterns and datePatterns.
BareText(k) == CASE k = 1 -> BraceCall [] k = 2 -> BareCall [] k = 3 -> AtTag

PatternKinds == {1, 2, 3}

\* The date patterns without their word boundaries.
DateMatchAt_NoBoundary(k, s, i) == IsAt(s, i, BareText(k))

\* datePatterns[k].regex matches at offset i:
\*   /\{\{today\(\)\}\}/, /\btoday\(\)/, /@today\b/
DateMatchAt(k, s, i) ==
    CASE k = 1 -> IsAt(s, i, BraceCall)
      [] k = 2 -> IsAt(s, i, BareCall) /\ WordBoundary(s, i)
      [] k = 3 -> IsAt(s, i, AtTag) /\ WordBoundary(s, i + Len(AtTag))

\* escapePatterns[k].regex matches at offset i (the offset of the backslash):
\*   /\\(\{\{today\(\)\}\})/, /\\(today\(\))/, /\\(@today)\b/
EscapeMatchAt(k, s, i) ==
    /\ i >= 0 /\ i < Len(s) /\ s[i + 1] = "\\"
    /\ IsAt(s, i + 1, BareText(k))
    /\ (k = 3 => WordBoundary(s, i + 1 + Len(AtTag)))

\* The offsets of the successive matches of a global date pattern, left to right
\* (matchAll: after a match the scan goes on behind it).
RECURSIVE DateMatchesFrom(_, _, _)
DateMatchesFrom(k, s, i) ==
    IF i >= Len(s) THEN <<>>
    ELSE IF DateMatchAt(k, s, i)
         THEN <<i>> \o DateMatchesFrom(k, s, i + Len(BareText(k)))
         ELSE DateMatchesFrom(k, s, i + 1)

matchAll(k, s) == DateMatchesFrom(k, s, 0)

\* pattern.regex.test(line) for escape pattern k.
EscapeTest(k, s) == \E i \in 0..(Len(s) - 1) : EscapeMatchAt(k, s, i)

\* line.replace(pattern.regex, '$1') for the global escape pattern k: every match
\* loses its backslash.
RECURSIVE EscapeReplaceAllFrom(_, _, _)
EscapeReplaceAllFrom(k, s, i) ==
    IF i >= Len(s) THEN <<>>
    ELSE IF EscapeMatchAt(k, s, i)
         THEN BareText(k) \o EscapeReplaceAllFrom(k, s, i + 1 + Len(BareText(k)))
         ELSE <<s[i + 1]>> \o EscapeReplaceAllFrom(k, s, i + 1)

EscapeReplaceAll(k, s) == EscapeReplaceAllFrom(k, s, 0)

\* The offsets of the backslashes the global escape pattern k matches.
RECURSIVE EscapeMatchesFrom(_, _, _)
EscapeMatchesFrom(k, s, i) ==
    IF i >= Len(s) THEN <<>>
    ELSE IF EscapeMatchAt(k, s, i)
         THEN <<i>> \o EscapeMatchesFrom(k, s, i + 1 + Len(BareText(k)))
         ELSE EscapeMatchesFrom(k, s, i + 1)

----------------------------------------------------------------------------
(* The lookup placeholder. *)

JiraOpen == <<"[","[","J","I","R","A",":">>

JiraClose == <<"]","]">>

SearchingSuffix == <<" ","(","s","e","a","r","c","h","i","n","g",".",".",".",")">>

\* The number of characters other than "]" from offset j on: the text [^\]]+ consumes.
RECURSIVE PayloadRun(_, _)
PayloadRun(s, j) == IF j < Len(s) /\ s[j + 1] # "]" THEN 1 + PayloadRun(s, j + 1) ELSE 0

\* /\[\[JIRA:([^\]]+)\]\]/ matches at offset i.
JiraMatchAt(s, i) ==
    /\ IsAt(s, i, JiraOpen)
    /\ PayloadRun(s, i + Len(JiraOpen)) >= 1
    /\ IsAt(s, i + Len(JiraOpen) + PayloadRun(s, i + Len(JiraOpen)), JiraClose)

\* The least offset from i on where the pattern matches, -1 when there is none.
RECURSIVE JiraMatchFrom(_, _)
JiraMatchFrom(s, i) ==
    IF i >= Len(s) THEN -1
    ELSE IF JiraMatchAt(s, i) THEN i
    ELSE JiraMatchFrom(s, i + 1)

\* line.match(jiraPattern): index -1 stands for null; text is match[0], payload match[1].
jiraPatternMatch(s) ==
    LET i == JiraMatchFrom(s, 0)
    IN  IF i < 0 THEN [index |-> -1, text |-> <<>>, payload |-> <<>>]
        ELSE LET n == PayloadRun(s, i + Len(JiraOpen))
             IN  [index   |-> i,
                  text    |-> substring(s, i, i + Len(JiraOpen) + n + Len(JiraClose)),
                  payload |-> substring(s, i + Len(JiraOpen), i + Len(JiraOpen) + n)]

RECURSIVE LetterRun(_, _)
LetterRun(s, j) ==
    IF j < Len(s) /\ s[j + 1] \in LetterChars
    THEN 1 + LetterRun(s, j + 1) ELSE 0

RECURSIVE DigitRun(_, _)
DigitRun(s, j) == IF j < Len(s) /\ s[j + 1] \in DigitChars THEN 1 + DigitRun(s, j + 1) ELSE 0

\* /^[A-Z]+-\d+( - .*)?$/i.test(searchTerm)
looksLikeTicket(term) ==
    LET a == LetterRun(term, 0)
        d == DigitRun(term, a + 1)
        e == a + 1 + d
    IN  /\ a >= 1
        /\ IsAt(term, a, <<"-">>)
        /\ d >= 1
        /\ \/ e = Len(term)
           \/ IsAt(term, e, <<" ", "-", " ">>)

\* `[[JIRA:${searchTerm} (searching...)]]`
loadingText(searchTerm) == JiraOpen \o searchTerm \o SearchingSuffix \o JiraClose

\* `[[JIRA:${issue.key} - ${issue.summary}]]`
linkText(issue) == JiraOpen \o issue.key \o <<" ", "-", " ">> \o issue.summary \o JiraClose

----------------------------------------------------------------------------
(* handleEditorChange: the three passes on the cursor line. *)

\* The lookup pass without the test that a client is configured.
lookupPass_NoClientTest(line, ch, client) ==
    LET match == jiraPatternMatch(line)
        matchStart == match.index
        matchEnd == matchStart + Len(match.text)
        searchTerm == trim(match.payload)
    IN  IF match.index < 0 \/ ~(ch >= matchStart /\ ch <= matchEnd)
        THEN [pass |-> "none", match0 |-> <<>>, searchTerm |-> <<>>]
        ELSE IF looksLikeTicket(searchTerm)
        THEN [pass |-> "ticket", match0 |-> match.text, searchTerm |-> searchTerm]
        ELSE IF ch >= 1 /\ ch <= Len(line) /\ line[ch] \in {"]", " "}
        THEN [pass |-> "lookup", match0 |-> match.text, searchTerm |-> searchTerm]
        ELSE [pass |-> "none", match0 |-> <<>>, searchTerm |-> <<>>]

\* The lookup pass without the test that the cursor is within the match.
lookupPass_AnyCursor(line, ch, client) ==
    LET match == jiraPatternMatch(line)
        searchTerm == trim(match.payload)
    IN  IF ~client \/ match.index < 0
        THEN [pass |-> "none", match0 |-> <<>>, searchTerm |-> <<>>]
        ELSE IF looksLikeTicket(searchTerm)
        THEN [pass |-> "ticket", match0 |-> match.text, searchTerm |-> searchTerm]
        ELSE IF ch >= 1 /\ ch <= Len(line) /\ line[ch] \in {"]", " "}
        THEN [pass |-> "lookup", match0 |-> match.text, searchTerm |-> searchTerm]
        ELSE [pass |-> "none", match0 |-> <<>>, searchTerm |-> <<>>]

\* The lookup pass: "ticket" when the handler returns on a payload in ticket form,
\* "lookup" when it calls expandJiraLink, "none" when it falls through.
lookupPass(line, ch, client) ==
    LET match == jiraPatternMatch(line)
        matchStart == match.index
        matchEnd == matchStart + Len(match.text)
        searchTerm == trim(match.payload)
    IN  IF ~client \/ match.index < 0 \/ ~(ch >= matchStart /\ ch <= matchEnd)
        THEN [pass |-> "none", match0 |-> <<>>, searchTerm |-> <<>>]
        ELSE IF looksLikeTicket(searchTerm)
        THEN [pass |-> "ticket", match0 |-> match.text, searchTerm |-> searchTerm]
        ELSE IF ch >= 1 /\ ch <= Len(line) /\ line[ch] \in {"]", " "}
        THEN [pass |-> "lookup", match0 |-> match.text, searchTerm |-> searchTerm]
        ELSE [pass |-> "none", match0 |-> <<>>, searchTerm |-> <<>>]

\* The escape patterns without the one for @today.
firstEscapePattern_NoAtTag(line) ==
    IF EscapeTest(1, line) THEN 1
    ELSE IF EscapeTest(2, line) THEN 2
    ELSE 0

\* The first escape pattern whose test succeeds, 0 when none does.
firstEscapePattern(line) ==
    IF EscapeTest(1, line) THEN 1
    ELSE IF EscapeTest(2, line) THEN 2
    ELSE IF EscapeTest(3, line) THEN 3
    ELSE 0

\* The escape pass for pattern k: setLine(newLine), setCursor(max(0, ch - 1)).
escapePass(k, line, ch) ==
    [newLine |-> EscapeReplaceAll(k, line), newCursorPos |-> Max(0, ch - 1)]

\* matches.filter(...): the matches not preceded by a backslash.
validMatches(k, line) ==
    SelectSeq(matchAll(k, line), LAMBDA matchStart : matchStart = 0 \/ line[matchStart] # "\\")

\* The date patterns tried in the reverse order.
firstDatePattern_Reversed(line) ==
    IF validMatches(3, line) # <<>> THEN 3
    ELSE IF validMatches(2, line) # <<>> THEN 2
    ELSE IF validMatches(1, line) # <<>> THEN 1
    ELSE 0

\* The first date pattern with a valid match, 0 when none has one.
firstDatePattern(line) ==
    IF validMatches(1, line) # <<>> THEN 1
    ELSE IF validMatches(2, line) # <<>> THEN 2
    ELSE IF validMatches(3, line) # <<>> THEN 3
    ELSE 0

\* The cursor adjustment with a match before the cursor assigning its shift where
\* the code adds it.
cursorAdjust_Assign(adj, matchStart, matchEnd, ch, replen, mlen) ==
    IF matchStart <= ch /\ ch <= matchEnd THEN (matchStart + replen) - ch
    ELSE IF matchStart < ch THEN replen - mlen
    ELSE adj

\* The cursor adjustment with a match before the cursor contributing nothing.
cursorAdjust_NoShift(adj, matchStart, matchEnd, ch, replen, mlen) ==
    IF matchStart <= ch /\ ch <= matchEnd THEN (matchStart + replen) - ch
    ELSE adj

\* The cursor adjustment one match contributes, given the adjustment so far.
cursorAdjust(adj, matchStart, matchEnd, ch, replen, mlen) ==
    IF matchStart <= ch /\ ch <= matchEnd THEN (matchStart + replen) - ch
    ELSE IF matchStart < ch THEN adj + (replen - mlen)
    ELSE adj

\* The loop over validMatches from index i down to 1.
RECURSIVE literalLoop(_, _, _, _, _, _, _)
literalLoop(vm, i, newLine, cursorAdjustment, replacement, mlen, ch) ==
    IF i < 1 THEN [newLine |-> newLine, cursorAdjustment |-> cursorAdjustment]
    ELSE LET matchStart == vm[i]
             matchEnd == matchStart + mlen
         IN  literalLoop(vm, i - 1,
                 substring(newLine, 0, matchStart) \o replacement
                     \o substringFrom(newLine, matchEnd),
                 cursorAdjust(cursorAdjustment, matchStart, matchEnd, ch,
                              Len(replacement), mlen),
                 replacement, mlen, ch)

\* The literal pass with the end of a match taken one character short.
literalPass_ShortMatch(k, line, ch, replacement) ==
    LET vm == validMatches(k, line)
        r == literalLoop(vm, Len(vm), line, 0, replacement, Len(BareText(k)) - 1, ch)
    IN  [newLine |-> r.newLine, newCursorPos |-> Max(0, ch + r.cursorAdjustment)]

\* The literal pass replacing the first valid match only.
literalPass_FirstOnly(k, line, ch, replacement) ==
    LET vm == validMatches(k, line)
        r == literalLoop(vm, Min(1, Len(vm)), line, 0, replacement, Len(BareText(k)), ch)
    IN  [newLine |-> r.newLine, newCursorPos |-> Max(0, ch + r.cursorAdjustment)]

\* The literal pass for pattern k.
literalPass(k, line, ch, replacement) ==
    LET vm == validMatches(k, line)
        r == literalLoop(vm, Len(vm), line, 0, replacement, Len(BareText(k)), ch)
    IN  [newLine |-> r.newLine, newCursorPos |-> Max(0, ch + r.cursorAdjustment)]

----------------------------------------------------------------------------
(* The inputs the model draws from. *)

\* The segments the initial lines and file names are made of.
EscapedText(k) == <<"\\">> \o BareText(k)

SearchPlaceholder == JiraOpen \o <<" ", "a", "b">> \o JiraClose

TicketPlaceholder == JiraOpen \o <<"A", "B", "-", "1">> \o JiraClose

LiteralSegs ==
    {BraceCall, BareCall, AtTag, EscapedText(1), EscapedText(2), EscapedText(3),
     <<"x">>, <<" ">>}

Placeholders == {SearchPlaceholder, TicketPlaceholder}

\* The texts made of exactly n segments.
RECURSIVE Exactly(_, _)
Exactly(segs, n) ==
    IF n = 0 THEN {<<>>} ELSE {p \o s : p \in Exactly(segs, n - 1), s \in segs}

\* The texts made of at most n segments.
Concats(segs, n) == UNION {Exactly(segs, i) : i \in 0..n}

Lines ==
    Concats(LiteralSegs, MaxSegs)
    \cup UNION {{a \o p \o b : a \in Exactly(LiteralSegs, i),
                               b \in Concats(LiteralSegs, MaxSegs - i),
                               p \in Placeholders} : i \in 0..MaxSegs}

DateFormats == {"MM/DD/YYYY"}

\* 2025-09-01, the date of the examples of the README.
Today == [year |-> 2025, month |-> 8, day |-> 1]

\* What searchIssues may resolve to: lists of issues, each a key and a summary.  One
\* key is a ticket key, the other equals the search term "ab" but for its case; one
\* summary holds dollar signs.
Issues ==
    {[key |-> <<"M", "U", "-", "1">>, summary |-> <<"s">>],
     [key |-> <<"A", "B">>,           summary |-> <<"$", "$">>]}

IssueLists ==
    {<<i>> : i \in Issues}
    \cup {l \in {<<i, j>> : i \in Issues, j \in Issues} : l[1] # l[2]}

\* The cache keys of the searches: `${searchTerm}-${projects || ''}`.
CacheKeys == {<<"a", "b", "-">>, <<"c", "d", "-">>}

\* cache.get(cacheKey) of a key the Map does not hold: undefined.
NoEntry == [issues |-> <<>>, write |-> 0]

\* new JiraClient(...): an empty cache, no timer, no call.
InitClient ==
    /\ cache = [k \in CacheKeys |-> NoEntry]
    /\ timers = <<>>
    /\ searches = <<>>
    /\ calls = 0

NoEvent ==
    [op |-> "init", pass |-> "", lineNum |-> 0, line0 |-> <<>>, ch0 |-> 0, kind |-> 0,
     term |-> <<>>, captured |-> <<>>, match0 |-> <<>>, issues |-> <<>>,
     notices |-> <<>>, text |-> <<>>,
     started0 |-> 0, setLines |-> 0, setCursors |-> 0, hit |-> FALSE]

NoUnescaped == [lineNum |-> 0, spans |-> {}]

NoFile == [name |-> <<>>, path |-> <<>>]

\* event: a rename event awaits handleFileRename.
NoRename == [op |-> "init", event |-> FALSE, name0 |-> <<>>, path0 |-> <<>>, pass |-> "",
             kind |-> 0, newName |-> <<>>, newPath |-> <<>>]

Init ==
    /\ buffer \in {<<l>> : l \in Lines}
    /\ cursor \in {[line |-> 0, ch |-> c] : c \in 0..Len(buffer[1])}
    /\ jiraClient \in BOOLEAN
    /\ InitClient
    /\ dateFormat \in DateFormats
    /\ now = Today
    /\ pending = <<>>
    /\ started = 0
    /\ unescaped = NoUnescaped
    /\ ev = NoEvent
    /\ file = NoFile
    /\ rn = NoRename

----------------------------------------------------------------------------
(* Bookkeeping of the bare trigger text an escape pass produced. *)

\* The spans <<k, start>> after escape pattern k lost its backslashes at offsets bs.
spansAfterEscape(spans, k, bs) ==
    {<<sp[1], sp[2] - Cardinality({j \in 1..Len(bs) : bs[j] < sp[2]})>> : sp \in spans}
    \cup {<<k, bs[j] - (j - 1)>> : j \in 1..Len(bs)}

\* The literal pass for pattern k replaced the matches at offsets ms: a span is hit
\* when a replaced match overlaps it.
spanHit(sp, k, ms) ==
    \E j \in 1..Len(ms) :
        /\ ms[j] < sp[2] + Len(BareText(sp[1]))
        /\ sp[2] < ms[j] + Len(BareText(k))

spansAfterLiteral(spans, k, ms, replen) ==
    {<<sp[1], sp[2] + Cardinality({j \in 1..Len(ms) : ms[j] < sp[2]})
                        * (replen - Len(BareText(k)))>> :
        sp \in {x \in spans : ~spanHit(x, k, ms)}}

----------------------------------------------------------------------------
(* The operations. *)

\* Where the host leaves the cursor after a setLine that no setCursor follows: it
\* keeps the offset (within the new line) or moves to the start or end of the line.
hostCursorAfterSetLine(lineNum, newLine) ==
    IF cursor.line # lineNum THEN {cursor}
    ELSE {[line |-> lineNum, ch |-> c] : c \in {0, Min(cursor.ch, Len(newLine)), Len(newLine)}}

\* The handler with the escape pass before the lookup pass.
handleEditorChange_EscapeFirst(line, ch, client, replacement) ==
    LET lp == lookupPass(line, ch, client)
        ek == firstEscapePattern(line)
        dk == firstDatePattern(line)
        none == [pass |-> "none", kind |-> 0, newLine |-> line, newCursorPos |-> ch,
                 match0 |-> <<>>, searchTerm |-> <<>>]
    IN  IF ek # 0
        THEN [none EXCEPT !.pass = "escape", !.kind = ek,
                          !.newLine = escapePass(ek, line, ch).newLine,
                          !.newCursorPos = escapePass(ek, line, ch).newCursorPos]
        ELSE IF lp.pass # "none"
        THEN [none EXCEPT !.pass = lp.pass, !.match0 = lp.match0,
                          !.searchTerm = lp.searchTerm]
        ELSE IF dk # 0
        THEN [none EXCEPT !.pass = "literal", !.kind = dk,
                          !.newLine = literalPass(dk, line, ch, replacement).newLine,
                          !.newCursorPos = literalPass(dk, line, ch, replacement).newCursorPos]
        ELSE none

\* What one call of handleEditorChange decides on the cursor line: the pass that acts,
\* the pattern it acts for, and the line and cursor offset it sets.
handleEditorChange(line, ch, client, replacement) ==
    LET lp == lookupPass(line, ch, client)
        none == [pass |-> "none", kind |-> 0, newLine |-> line, newCursorPos |-> ch,
                 match0 |-> <<>>, searchTerm |-> <<>>]
    IN  IF lp.pass # "none"
        THEN [none EXCEPT !.pass = lp.pass, !.match0 = lp.match0,
                          !.searchTerm = lp.searchTerm]
        ELSE LET ek == firstEscapePattern(line)
             IN  IF ek # 0
                 THEN LET r == escapePass(ek, line, ch)
                      IN  [none EXCEPT !.pass = "escape", !.kind = ek,
                                       !.newLine = r.newLine,
                                       !.newCursorPos = r.newCursorPos]
                 ELSE LET dk == firstDatePattern(line)
                      IN  IF dk # 0
                          THEN LET r == literalPass(dk, line, ch, replacement)
                               IN  [none EXCEPT !.pass = "literal", !.kind = dk,
                                                !.newLine = r.newLine,
                                                !.newCursorPos = r.newCursorPos]
                          ELSE none

\* The handler with the escape pass leaving the cursor to the host: no setCursor call.
EditorChange_NoSetCursor ==
    \E o \in {handleEditorChange(buffer[cursor.line + 1], cursor.ch, jiraClient,
                                 formatDate(now, dateFormat))} :
    LET lineNum == cursor.line
        line == buffer[lineNum + 1]
        ch == cursor.ch
        old == IF unescaped.lineNum = lineNum THEN unescaped.spans ELSE {}
        base == [NoEvent EXCEPT !.op = "edit", !.pass = o.pass, !.lineNum = lineNum,
                                !.line0 = line, !.ch0 = ch, !.kind = o.kind,
                                !.term = o.searchTerm, !.started0 = started]
    IN  CASE o.pass = "lookup" ->
                \* expandJiraLink: the marker is written, then searchIssues is awaited.
                LET loadingLine == replaceString(line, o.match0, loadingText(o.searchTerm))
                IN  /\ started < MaxLookups
                    /\ started' = started + 1
                    /\ buffer' = [buffer EXCEPT ![lineNum + 1] = loadingLine]
                    /\ cursor' \in hostCursorAfterSetLine(lineNum, loadingLine)
                    /\ pending' = Append(pending,
                           [lineNum |-> lineNum, line |-> line, match0 |-> o.match0,
                            searchTerm |-> o.searchTerm])
                    /\ unescaped' = NoUnescaped
                    /\ ev' = [base EXCEPT !.setLines = 1]
          [] o.pass = "escape" ->
                /\ buffer' = [buffer EXCEPT ![lineNum + 1] = o.newLine]
                /\ cursor' \in hostCursorAfterSetLine(lineNum, o.newLine)
                /\ unescaped' = [lineNum |-> lineNum,
                                 spans |-> spansAfterEscape(old, o.kind,
                                               EscapeMatchesFrom(o.kind, line, 0))]
                /\ ev' = [base EXCEPT !.setLines = 1]
                /\ UNCHANGED <<pending, started>>
          [] o.pass = "literal" ->
                /\ buffer' = [buffer EXCEPT ![lineNum + 1] = o.newLine]
                /\ cursor' = [line |-> lineNum, ch |-> o.newCursorPos]
                /\ unescaped' = [lineNum |-> lineNum,
                                 spans |-> spansAfterLiteral(old, o.kind,
                                               validMatches(o.kind, line),
                                               Len(formatDate(now, dateFormat)))]
                /\ ev' = [base EXCEPT !.setLines = 1, !.setCursors = 1,
                                      !.hit = \E sp \in old :
                                                 spanHit(sp, o.kind, validMatches(o.kind, line))]
                /\ UNCHANGED <<pending, started>>
          [] OTHER ->
                \* "ticket" (the handler returns) or "none" (no pattern applies)
                /\ ev' = base
                /\ UNCHANGED <<buffer, cursor, pending, started, unescaped>>

\* handleEditorChange on the cursor line, with expandJiraLink up to its await; at
\* most maxLookups lookups are started in one behaviour.
EditorChangeUpTo(maxLookups) ==
    \E o \in {handleEditorChange(buffer[cursor.line + 1], cursor.ch, jiraClient,
                                 formatDate(now, dateFormat))} :
    LET lineNum == cursor.line
        line == buffer[lineNum + 1]
        ch == cursor.ch
        old == IF unescaped.lineNum = lineNum THEN unescaped.spans ELSE {}
        base == [NoEvent EXCEPT !.op = "edit", !.pass = o.pass, !.lineNum = lineNum,
                                !.line0 = line, !.ch0 = ch, !.kind = o.kind,
                                !.term = o.searchTerm, !.started0 = started]
    IN  CASE o.pass = "lookup" ->
                \* expandJiraLink: the marker is written, then searchIssues is awaited.
                LET loadingLine == replaceString(line, o.match0, loadingText(o.searchTerm))
                IN  /\ started < maxLookups
                    /\ started' = started + 1
                    /\ buffer' = [buffer EXCEPT ![lineNum + 1] = loadingLine]
                    /\ cursor' \in hostCursorAfterSetLine(lineNum, loadingLine)
                    /\ pending' = Append(pending,
                           [lineNum |-> lineNum, line |-> line, match0 |-> o.match0,
                            searchTerm |-> o.searchTerm])
                    /\ unescaped' = NoUnescaped
                    /\ ev' = [base EXCEPT !.setLines = 1]
          [] o.pass = "escape" ->
                /\ buffer' = [buffer EXCEPT ![lineNum + 1] = o.newLine]
                /\ cursor' = [line |-> lineNum, ch |-> o.newCursorPos]
                /\ unescaped' = [lineNum |-> lineNum,
                                 spans |-> spansAfterEscape(old, o.kind,
                                               EscapeMatchesFrom(o.kind, line, 0))]
                /\ ev' = [base EXCEPT !.setLines = 1, !.setCursors = 1]
                /\ UNCHANGED <<pending, started>>
          [] o.pass = "literal" ->
                /\ buffer' = [buffer EXCEPT ![lineNum + 1] = o.newLine]
                /\ cursor' = [line |-> lineNum, ch |-> o.newCursorPos]
                /\ unescaped' = [lineNum |-> lineNum,
                                 spans |-> spansAfterLiteral(old, o.kind,
                                               validMatches(o.kind, line),
                                               Len(formatDate(now, dateFormat)))]
                /\ ev' = [base EXCEPT !.setLines = 1, !.setCursors = 1,
                                      !.hit = \E sp \in old :
                                                 spanHit(sp, o.kind, validMatches(o.kind, line))]
                /\ UNCHANGED <<pending, started>>
          [] OTHER ->
                \* "ticket" (the handler returns) or "none" (no pattern applies)
                /\ ev' = base
                /\ UNCHANGED <<buffer, cursor, pending, started, unescaped>>

\* handleEditorChange on the cursor line, with expandJiraLink up to its await.
EditorChange == EditorChangeUpTo(MaxLookups)

EditorChangeStep ==
    /\ EditorChange
    /\ UNCHANGED <<jiraClient, clientVars, dateFormat, now, file, rn>>

\* The sequence without its i-th element.
RemoveAt(seq, i) == SubSeq(seq, 1, i - 1) \o SubSeq(seq, i + 1, Len(seq))

\* issues.find(i => i.key.toLowerCase() === searchTerm.toLowerCase()) || issues[0]
chosenIssue(issues, searchTerm) ==
    LET exact == {i \in 1..Len(issues) : toLowerCase(issues[i].key) = toLowerCase(searchTerm)}
    IN  IF exact = {} THEN issues[1]
        ELSE issues[CHOOSE i \in exact : \A j \in exact : i <= j]

\* new Notice(`No Jira issues found for "${searchTerm}"`): the text before the term,
\* the term, and the text after it.
NoticeNoResults(searchTerm) == <<"No Jira issues found for \"", searchTerm, "\"">>

NoticeError == <<"Error searching Jira issues. Please check your connection.">>

\* The result written only when the line still is the marker line the expansion
\* wrote: a content check the code does not make.
LookupResolved_IfMarker ==
    \E i \in 1..Len(pending), issues \in IssueLists :
        LET p == pending[i]
            issue == chosenIssue(issues, p.searchTerm)
            expandedLine == replaceString(p.line, p.match0, linkText(issue))
        IN  /\ buffer' = [buffer EXCEPT ![p.lineNum + 1] =
                              IF @ = replaceString(p.line, p.match0, loadingText(p.searchTerm))
                              THEN expandedLine ELSE @]
            /\ cursor' \in hostCursorAfterSetLine(p.lineNum, expandedLine)
            /\ pending' = RemoveAt(pending, i)
            /\ unescaped' = IF unescaped.lineNum = p.lineNum THEN NoUnescaped ELSE unescaped
            /\ ev' = [NoEvent EXCEPT !.op = "resolved", !.lineNum = p.lineNum,
                                     !.line0 = buffer[p.lineNum + 1],
                                     !.term = p.searchTerm, !.captured = p.line,
                                     !.match0 = p.match0, !.started0 = started,
                                     !.issues = issues, !.setLines = 1]
            /\ UNCHANGED <<jiraClient, clientVars, dateFormat, now, started, file, rn>>

\* expandJiraLink after its await, searchIssues having returned a non-empty list.
LookupResolved ==
    \E i \in 1..Len(pending), issues \in IssueLists :
        LET p == pending[i]
            issue == chosenIssue(issues, p.searchTerm)
            expandedLine == replaceString(p.line, p.match0, linkText(issue))
        IN  /\ buffer' = [buffer EXCEPT ![p.lineNum + 1] = expandedLine]
            /\ cursor' \in hostCursorAfterSetLine(p.lineNum, expandedLine)
            /\ pending' = RemoveAt(pending, i)
            /\ unescaped' = IF unescaped.lineNum = p.lineNum THEN NoUnescaped ELSE unescaped
            /\ ev' = [NoEvent EXCEPT !.op = "resolved", !.lineNum = p.lineNum,
                                     !.line0 = buffer[p.lineNum + 1],
                                     !.term = p.searchTerm, !.captured = p.line,
                                     !.match0 = p.match0, !.started0 = started,
                                     !.issues = issues, !.setLines = 1]
            /\ UNCHANGED <<jiraClient, clientVars, dateFormat, now, started, file, rn>>

\* The empty result handled as the catch block handles a rejection: the line is
\* read again and written back.
LookupEmpty_Reread ==
    \E i \in 1..Len(pending) :
        LET p == pending[i]
            originalLine == buffer[p.lineNum + 1]
        IN  /\ buffer' = [buffer EXCEPT ![p.lineNum + 1] = originalLine]
            /\ cursor' \in hostCursorAfterSetLine(p.lineNum, originalLine)
            /\ pending' = RemoveAt(pending, i)
            /\ unescaped' = IF unescaped.lineNum = p.lineNum THEN NoUnescaped ELSE unescaped
            /\ ev' = [NoEvent EXCEPT !.op = "empty", !.lineNum = p.lineNum,
                                     !.line0 = buffer[p.lineNum + 1],
                                     !.term = p.searchTerm, !.captured = p.line,
                                     !.match0 = p.match0, !.started0 = started,
                                     !.notices = <<NoticeNoResults(p.searchTerm)>>, !.setLines = 1]
            /\ UNCHANGED <<jiraClient, clientVars, dateFormat, now, started, file, rn>>

\* expandJiraLink after its await, searchIssues having returned an empty list.
LookupEmpty ==
    \E i \in 1..Len(pending) :
        LET p == pending[i]
        IN  /\ buffer' = [buffer EXCEPT ![p.lineNum + 1] = p.line]
            /\ cursor' \in hostCursorAfterSetLine(p.lineNum, p.line)
            /\ pending' = RemoveAt(pending, i)
            /\ unescaped' = IF unescaped.lineNum = p.lineNum THEN NoUnescaped ELSE unescaped
            /\ ev' = [NoEvent EXCEPT !.op = "empty", !.lineNum = p.lineNum,
                                     !.line0 = buffer[p.lineNum + 1],
                                     !.term = p.searchTerm, !.captured = p.line,
                                     !.match0 = p.match0, !.started0 = started,
                                     !.notices = <<NoticeNoResults(p.searchTerm)>>, !.setLines = 1]
            /\ UNCHANGED <<jiraClient, clientVars, dateFormat, now, started, file, rn>>

\* expandJiraLink's catch block, searchIssues having rejected.
LookupFailed ==
    \E i \in 1..Len(pending) :
        LET p == pending[i]
            originalLine == buffer[p.lineNum + 1]
        IN  /\ buffer' = [buffer EXCEPT ![p.lineNum + 1] = originalLine]
            /\ cursor' \in hostCursorAfterSetLine(p.lineNum, originalLine)
            /\ pending' = RemoveAt(pending, i)
            /\ unescaped' = IF unescaped.lineNum = p.lineNum THEN NoUnescaped ELSE unescaped
            /\ ev' = [NoEvent EXCEPT !.op = "failed", !.lineNum = p.lineNum,
                                     !.line0 = buffer[p.lineNum + 1],
                                     !.term = p.searchTerm, !.captured = p.line,
                                     !.match0 = p.match0, !.started0 = started,
                                     !.notices = <<NoticeError>>, !.setLines = 1]
            /\ UNCHANGED <<jiraClient, clientVars, dateFormat, now, started, file, rn>>

----------------------------------------------------------------------------
(* handleFileRename *)

\* The least offset from i on where date pattern k matches, -1 when there is none:
\* newName.match(pattern.regex).index for the patterns without the g flag.
RECURSIVE DateMatchFrom(_, _, _)
DateMatchFrom(k, s, i) ==
    IF i >= Len(s) THEN -1
    ELSE IF DateMatchAt(k, s, i) THEN i
    ELSE DateMatchFrom(k, s, i + 1)

\* The least offset from i on where escape pattern k matches, -1 when there is none.
RECURSIVE EscapeMatchFrom(_, _, _)
EscapeMatchFrom(k, s, i) ==
    IF i >= Len(s) THEN -1
    ELSE IF EscapeMatchAt(k, s, i) THEN i
    ELSE EscapeMatchFrom(k, s, i + 1)

\* newName.replace(pattern.regex, '$1') for escape pattern k without the g flag: the
\* first match loses its backslash.
escapeReplaceFirst(k, s) ==
    LET i == EscapeMatchFrom(k, s, 0)
    IN  IF i < 0 THEN s ELSE substring(s, 0, i) \o substringFrom(s, i + 1)

\* The replacement applied a second time to its own result.
dateReplaceFirst_Twice(k, s, replacement) ==
    LET once(x) ==
            LET i == DateMatchFrom(k, x, 0)
            IN  IF i < 0 THEN x
                ELSE substring(x, 0, i) \o replacement
                         \o substringFrom(x, i + Len(BareText(k)))
    IN  once(once(s))

\* newName.replace(pattern.regex, pattern.replacement) for date pattern k without the
\* g flag: the first match becomes the replacement.
dateReplaceFirst(k, s, replacement) ==
    LET i == DateMatchFrom(k, s, 0)
        before == substring(s, 0, i)
        after == substringFrom(s, i + Len(BareText(k)))
    IN  IF i < 0 THEN s
        ELSE before \o GetSubstitution(replacement, BareText(k), before, after) \o after

\* The loop over datePatterns from pattern k on.
RECURSIVE renameLiteralFrom(_, _, _)
renameLiteralFrom(k, name, replacement) ==
    IF k > 3 THEN [pass |-> "none", kind |-> 0, newName |-> name]
    ELSE LET matchStart == DateMatchFrom(k, name, 0)
             isEscaped == matchStart > 0 /\ name[matchStart] = "\\"
         IN  IF matchStart >= 0 /\ ~isEscaped
             THEN [pass |-> "literal", kind |-> k,
                   newName |-> dateReplaceFirst(k, name, replacement)]
             ELSE renameLiteralFrom(k + 1, name, replacement)

\* What handleFileRename decides for a file name: the pass that acts (hasReplacement
\* is pass # "none"), the pattern, and the new name.
handleFileRename(name, replacement) ==
    LET ek == firstEscapePattern(name)
    IN  IF ek # 0
        THEN [pass |-> "escape", kind |-> ek, newName |-> escapeReplaceFirst(ek, name)]
        ELSE renameLiteralFrom(1, name, replacement)

\* s.lastIndexOf("/")
RECURSIVE lastSlashFrom(_, _)
lastSlashFrom(s, i) ==
    IF i < 0 THEN -1 ELSE IF s[i + 1] = "/" THEN i ELSE lastSlashFrom(s, i - 1)

\* The name of the file at a path: the text after the last slash.
baseName(path) == substringFrom(path, lastSlashFrom(path, Len(path) - 1) + 1)

\* The rename event finds nothing to replace: no rename is issued.
FileRenameNone ==
    \E r \in {handleFileRename(file.name, formatDate(now, dateFormat))} :
        /\ rn.event
        /\ r.pass = "none"
        /\ rn' = [op |-> "none", event |-> FALSE, name0 |-> file.name, path0 |-> file.path,
                  pass |-> r.pass, kind |-> 0, newName |-> r.newName, newPath |-> file.path]
        /\ UNCHANGED file
        /\ UNCHANGED edVars
        /\ UNCHANGED clientVars

\* The handler rewrites the name and vault.rename succeeds: the file is at the new
\* path, and the vault raises a rename event for it.
FileRenameOk ==
    \E r \in {handleFileRename(file.name, formatDate(now, dateFormat))} :
        LET newPath == replaceString(file.path, file.name, r.newName)
        IN  /\ rn.event
            /\ r.pass # "none"
            /\ file' = [name |-> baseName(newPath), path |-> newPath]
            /\ rn' = [op |-> "renamed", event |-> TRUE, name0 |-> file.name,
                      path0 |-> file.path, pass |-> r.pass, kind |-> r.kind,
                      newName |-> r.newName, newPath |-> newPath]
            /\ UNCHANGED edVars
            /\ UNCHANGED clientVars

\* The handler rewrites the name and vault.rename rejects: the error is logged and
\* the file stays where it is.
FileRenameFails ==
    \E r \in {handleFileRename(file.name, formatDate(now, dateFormat))} :
        LET newPath == replaceString(file.path, file.name, r.newName)
        IN  /\ rn.event
            /\ r.pass # "none"
            /\ rn' = [op |-> "failed", event |-> FALSE, name0 |-> file.name,
                      path0 |-> file.path, pass |-> r.pass, kind |-> r.kind,
                      newName |-> r.newName, newPath |-> newPath]
            /\ UNCHANGED file
            /\ UNCHANGED edVars
            /\ UNCHANGED clientVars

----------------------------------------------------------------------------
(* The specifications. *)

Next ==
    \/ EditorChangeStep
    \/ LookupResolved
    \/ LookupEmpty
    \/ LookupFailed

\* The editor: edit events and the lookups they start.
Spec == Init /\ [][Next]_vars

\* The file names a rename event may carry, and the folders of the files.
FileNames == {n \o <<".", "m", "d">> : n \in Concats(LiteralSegs, MaxSegs + 1)}

Folders == {<<>>, <<"d", "/">>}

RenameDateFormats == {"YYYY-MM-DD", "MM/DD/YYYY"}

InitRename ==
    /\ buffer = <<<<>>>>
    /\ cursor = [line |-> 0, ch |-> 0]
    /\ jiraClient = FALSE
    /\ InitClient
    /\ dateFormat \in RenameDateFormats
    /\ now = Today
    /\ pending = <<>>
    /\ started = 0
    /\ unescaped = NoUnescaped
    /\ ev = NoEvent
    /\ file \in {[name |-> n, path |-> d \o n] : n \in FileNames, d \in Folders}
    /\ rn = [NoRename EXCEPT !.event = TRUE]

NextRename ==
    \/ FileRenameNone
    \/ FileRenameOk
    \/ FileRenameFails

\* The vault: rename events and the renames handleFileRename issues.
SpecRename == InitRename /\ [][NextRename]_vars

----------------------------------------------------------------------------
(* The vocabulary of the properties. *)

\* The offsets of the occurrences of trigger k in s that no backslash precedes.
ValidStarts(k, s) ==
    {i \in 0..(Len(s) - 1) : DateMatchAt(k, s, i) /\ (i = 0 \/ s[i] # "\\")}

\* The offsets of the backslashes of the escaped occurrences of trigger k in s.
EscapedStarts(k, s) == {i \in 0..(Len(s) - 1) : EscapeMatchAt(k, s, i)}

HasEscaped(s) == \E k \in PatternKinds : EscapedStarts(k, s) # {}

HasValid(s) == \E k \in PatternKinds : ValidStarts(k, s) # {}

\* s from offset i on, each span of length mlen that starts at an offset of S
\* replaced by rep.
RECURSIVE ReplaceSpans(_, _, _, _, _)
ReplaceSpans(s, S, mlen, rep, i) ==
    IF i >= Len(s) THEN <<>>
    ELSE IF i \in S THEN rep \o ReplaceSpans(s, S, mlen, rep, i + mlen)
    ELSE <<s[i + 1]>> \o ReplaceSpans(s, S, mlen, rep, i + 1)

\* s without the characters at the offsets of S.
WithoutOffsets(s, S) == ReplaceSpans(s, S, 1, <<>>, 0)

\* The number of places where pat occurs in s.
Occurrences(s, pat) == Cardinality({i \in 0..(Len(s) - 1) : IsAt(s, i, pat)})

\* The formatted date of the settings, and the line the last event acted on as it
\* is after the event.
DateText == formatDate(now, dateFormat)

LineAfter == buffer[ev.lineNum + 1]

\* The last step was an edit event that the lookup pass did not end.
EditPastLookup == ev.op = "edit" /\ ev.pass \notin {"lookup", "ticket"}

----------------------------------------------------------------------------
(* C1 *)

\* The line the last edit event acted on holds exactly one occurrence of trigger k
\* that no backslash precedes, and the line after the event is the line before it
\* with that occurrence replaced by the formatted date.
OnlyOccurrenceBecameDate(k) ==
    LET S == ValidStarts(k, ev.line0)
    IN  Cardinality(S) = 1 =>
            LineAfter = ReplaceSpans(ev.line0, S, Len(BareText(k)), DateText, 0)

\* C1 as stated: one edit event on a line with exactly one occurrence of a trigger T
\* that no backslash precedes replaces that occurrence by the formatted date,
\* whichever of the three triggers T is and whatever else the line holds.
C1_AnyTriggerReplaced ==
    ev.op = "edit" => \A k \in PatternKinds : OnlyOccurrenceBecameDate(k)

\* C1: one edit event that the lookup pass does not end, on a line that holds no
\* escaped trigger, no valid occurrence of a trigger before T in the order
\* {{today()}}, today(), @today, and exactly one valid occurrence of T, replaces that
\* occurrence by the formatted date and leaves the rest of the line as it was.
C1_FirstTriggerReplaced ==
    (EditPastLookup /\ ~HasEscaped(ev.line0)) =>
        \A k \in PatternKinds :
            (\A j \in 1..(k - 1) : ValidStarts(j, ev.line0) = {}) =>
                OnlyOccurrenceBecameDate(k)

\* An edit event replaced the only valid occurrence of @today on a line that holds
\* other text as well.
C1_Witness ==
    /\ EditPastLookup
    /\ ev.pass = "literal"
    /\ ev.kind = 3
    /\ Cardinality(ValidStarts(3, ev.line0)) = 1
    /\ Len(ev.line0) > Len(AtTag)
    /\ LineAfter # ev.line0

----------------------------------------------------------------------------
(* C2 *)

\* C2: escaping prevents replacement over time: no edit event replaces by a date a
\* bare trigger text that an earlier escape pass produced on that line and that has
\* stayed in place since.
C2_UnescapedTextStays ==
    ~(ev.op = "edit" /\ ev.pass = "literal" /\ ev.hit)

----------------------------------------------------------------------------
(* C3 *)

\* The last edit event only performed the escape: the escaped occurrences of one
\* trigger lost their backslash, nothing else changed on the line, and the line
\* holds as many formatted dates as before.
OnlyEscapePerformed ==
    /\ ev.pass = "escape"
    /\ \E k \in PatternKinds :
          /\ EscapedStarts(k, ev.line0) # {}
          /\ LineAfter = WithoutOffsets(ev.line0, EscapedStarts(k, ev.line0))
    /\ Occurrences(LineAfter, DateText) = Occurrences(ev.line0, DateText)

\* C3 as stated: on a line with both an escaped occurrence and a valid bare occurrence
\* of a trigger, one edit event only performs the escape.
C3_EscapeOnly ==
    (ev.op = "edit" /\ HasEscaped(ev.line0) /\ HasValid(ev.line0)) => OnlyEscapePerformed

\* C3: on a line with both an escaped occurrence and a valid bare occurrence of a
\* trigger, one edit event that the lookup pass does not end only performs the
\* escape: the escaped text becomes the bare text and no date is substituted.
C3_EscapeOnlyPastLookup ==
    (EditPastLookup /\ HasEscaped(ev.line0) /\ HasValid(ev.line0)) => OnlyEscapePerformed

\* An edit event unescaped \@today on a line that also holds a valid {{today()}}.
C3_Witness ==
    /\ EditPastLookup
    /\ ev.pass = "escape"
    /\ ev.kind = 3
    /\ ValidStarts(1, ev.line0) # {}
    /\ ValidStarts(1, LineAfter) # {}

----------------------------------------------------------------------------
(* C4 *)

\* C4: the escape pass of one edit event removes exactly one backslash: the line it
\* writes is one character shorter than the line it read, and the cursor is set to
\* max(0, old cursor - 1).
C4_OneBackslashRemoved ==
    (ev.op = "edit" /\ ev.pass = "escape") =>
        /\ Len(LineAfter) = Len(ev.line0) - 1
        /\ cursor.ch = Max(0, ev.ch0 - 1)

----------------------------------------------------------------------------
(* C5 *)

\* The valid occurrence of the trigger the last literal pass replaced whose span
\* holds the cursor offset strictly inside, if there is one.
CursorOccurrences ==
    {i \in ValidStarts(ev.kind, ev.line0) :
        i < ev.ch0 /\ ev.ch0 < i + Len(BareText(ev.kind))}

\* C5 as stated: with the cursor strictly inside a valid occurrence, the literal pass
\* sets the cursor to the start offset of that occurrence in the original line plus
\* the length of the formatted date.
C5_CursorAtStartPlusDate ==
    (ev.op = "edit" /\ ev.pass = "literal") =>
        \A i \in CursorOccurrences : cursor.ch = i + Len(DateText)

\* C5: with the cursor strictly inside a valid occurrence, the literal pass sets the
\* cursor to the start offset of that occurrence in the original line, plus the
\* length of the formatted date, plus the difference of the length of the date and
\* the length of the trigger for each valid occurrence that starts before it.
C5_CursorAfterDate ==
    (ev.op = "edit" /\ ev.pass = "literal") =>
        \A i \in CursorOccurrences :
            cursor.ch = i + Len(DateText)
                        + Cardinality({j \in ValidStarts(ev.kind, ev.line0) : j < i})
                          * (Len(DateText) - Len(BareText(ev.kind)))

\* The literal pass replaced two occurrences, the cursor being inside the second.
C5_Witness ==
    /\ ev.op = "edit"
    /\ ev.pass = "literal"
    /\ \E i \in CursorOccurrences : \E j \in ValidStarts(ev.kind, ev.line0) : j < i

----------------------------------------------------------------------------
(* C6 *)

\* The first trigger, in the order {{today()}}, today(), @today, that has a valid
\* occurrence in s; 0 when none has one.
FirstValidKind(s) ==
    IF HasValid(s) THEN CHOOSE k \in PatternKinds :
                            /\ ValidStarts(k, s) # {}
                            /\ \A j \in 1..(k - 1) : ValidStarts(j, s) = {}
    ELSE 0

\* The offset in the line after the literal pass for trigger k of the character at
\* offset i of the line before it, i being outside the replaced occurrences.
OffsetAfter(k, i) ==
    i + Cardinality({j \in ValidStarts(k, ev.line0) : j < i})
        * (Len(DateText) - Len(BareText(k)))

\* C6: an edit event whose literal pass acts replaces the valid occurrences of one
\* trigger only, the first in the order {{today()}}, today(), @today that has one;
\* on a line with both a valid @today and a valid {{today()}} it replaces the
\* {{today()}} occurrences and the text of every @today is still in place, and an
\* edit event whose literal pass does not act substitutes no date at all.
C6_Priority ==
    /\ (ev.op = "edit" /\ ev.pass = "literal") =>
          LET k == FirstValidKind(ev.line0)
          IN  /\ ev.kind = k
              /\ LineAfter = ReplaceSpans(ev.line0, ValidStarts(k, ev.line0),
                                          Len(BareText(k)), DateText, 0)
    /\ (ev.op = "edit" /\ ValidStarts(1, ev.line0) # {} /\ ValidStarts(3, ev.line0) # {}) =>
          IF ev.pass = "literal"
          THEN /\ ev.kind = 1
               /\ \A i \in ValidStarts(3, ev.line0) :
                      IsAt(LineAfter, OffsetAfter(1, i), AtTag)
          ELSE Occurrences(LineAfter, DateText) = Occurrences(ev.line0, DateText)

\* The literal pass replaced {{today()}} on a line that holds a valid @today.
C6_Witness ==
    /\ ev.op = "edit"
    /\ ev.pass = "literal"
    /\ ValidStarts(1, ev.line0) # {}
    /\ ValidStarts(3, ev.line0) # {}
    /\ ValidStarts(3, LineAfter) # {}
    /\ ValidStarts(1, LineAfter) = {}

----------------------------------------------------------------------------
(* C8 *)

\* C8: when the lookup rejects, the line at the captured index is set back to the
\* text it had before the marker was written, and the notice shown is the error
\* notice, which differs from the notice for an empty result.
C8_FailedRestoresLine ==
    ev.op = "failed" =>
        /\ LineAfter = ev.captured
        /\ ev.notices = <<NoticeError>>
        /\ NoticeError # NoticeNoResults(ev.term)

----------------------------------------------------------------------------
(* C9 *)

\* The line with its first placeholder replaced by the text of the link to issue.
WithLink(line, issue) ==
    LET m == jiraPatternMatch(line)
    IN  substring(line, 0, m.index) \o JiraOpen \o issue.key \o <<" ", "-", " ">>
            \o issue.summary \o JiraClose \o substringFrom(line, m.index + Len(m.text))

\* The issues of a result list whose key equals the term, letter case apart.
KeyMatches(issues, term) ==
    {i \in 1..Len(issues) : toLowerCase(issues[i].key) = toLowerCase(term)}

\* C9: when the lookup returns a non-empty list, the line at the captured index is
\* set to the line as it was before the marker with the placeholder replaced by
\* [[JIRA:<key> - <summary>]], for an issue of the list whose key equals the trimmed
\* payload case-insensitively if there is one and for the first issue otherwise.
C9_ResolvedWritesLink ==
    ev.op = "resolved" =>
        LET M == KeyMatches(ev.issues, ev.term)
        IN  IF M = {} THEN LineAfter = WithLink(ev.captured, ev.issues[1])
            ELSE \E i \in M : LineAfter = WithLink(ev.captured, ev.issues[i])

----------------------------------------------------------------------------
(* C10 *)

\* C10: when the lookup returns an empty list, the line at the captured index is set
\* back to the text it had before the marker was written, exactly one notice is
\* shown, and the step starts no lookup: the count of lookups started is as before,
\* and the lookup that returned is no longer awaited.
C10_EmptyRestoresLine ==
    ev.op = "empty" =>
        /\ LineAfter = ev.captured
        /\ Len(ev.notices) = 1
        /\ started = ev.started0
        /\ Len(pending) < started

\* An empty result arrived for a placeholder that other text follows on its line.
C10_Witness ==
    /\ ev.op = "empty"
    /\ ev.line0 # ev.captured
    /\ Len(ev.captured) > Len(SearchPlaceholder)
    /\ LineAfter = ev.captured

----------------------------------------------------------------------------
(* C7 *)

\* The least element of a non-empty set of offsets.
Least(S) == CHOOSE i \in S : \A j \in S : i <= j

\* The name the last rename event carried held at least two valid occurrences of
\* the trigger handleFileRename replaced.
RenamedAmongSeveral ==
    /\ rn.op \in {"renamed", "failed"}
    /\ rn.pass = "literal"
    /\ Cardinality(ValidStarts(rn.kind, rn.name0)) >= 2

\* The new name is the old one with the first valid occurrence of the replaced
\* trigger become the formatted date, and nothing else changed.
FirstOccurrenceBecameDate ==
    rn.newName = ReplaceSpans(rn.name0, {Least(ValidStarts(rn.kind, rn.name0))},
                              Len(BareText(rn.kind)), DateText, 0)

\* C7 as stated: for a name with n >= 2 valid occurrences of the winning trigger,
\* the name used for the rename holds n - 1 valid occurrences of it, the first one
\* having become the formatted date, and the rest of the name is unchanged.
C7_OneFewerOccurrence ==
    RenamedAmongSeveral =>
        /\ FirstOccurrenceBecameDate
        /\ Cardinality(ValidStarts(rn.kind, rn.newName))
               = Cardinality(ValidStarts(rn.kind, rn.name0)) - 1

\* C7: for a name with n >= 2 valid occurrences of the winning trigger, the name
\* used for the rename is the old name with the first of them become the formatted
\* date and the rest unchanged: the text of the other n - 1 occurrences is still in
\* place, and they are still valid occurrences except for a today() that directly
\* follows the date and has lost its word boundary to it.
C7_FirstOccurrenceOnly ==
    RenamedAmongSeveral =>
        LET S == ValidStarts(rn.kind, rn.name0)
            first == Least(S)
            shift == Len(DateText) - Len(BareText(rn.kind))
            after == ValidStarts(rn.kind, rn.newName)
        IN  /\ FirstOccurrenceBecameDate
            /\ \A i \in S \ {first} :
                  /\ IsAt(rn.newName, i + shift, BareText(rn.kind))
                  /\ (i + shift \in after
                      \/ (rn.kind = 2 /\ i = first + Len(BareCall)))
            /\ Cardinality(after) \in {Cardinality(S) - 1, Cardinality(S) - 2}

\* A rename replaced the first of three @today in a name.
C7_Witness ==
    /\ RenamedAmongSeveral
    /\ rn.kind = 3
    /\ Cardinality(ValidStarts(3, rn.name0)) = 3
    /\ Cardinality(ValidStarts(3, rn.newName)) = 2

----------------------------------------------------------------------------
(* The vocabulary of the properties about placeholders. *)

\* The first placeholder of the line the last edit event read.
Placeholder == jiraPatternMatch(ev.line0)

PlaceholderEnd == Placeholder.index + Len(Placeholder.text)

\* The cursor of the last edit event was directly after the closing brackets of the
\* placeholder.
CursorAfterPlaceholder == Placeholder.index >= 0 /\ ev.ch0 = PlaceholderEnd

\* The payload of the placeholder has the ticket format.
TicketPayload == looksLikeTicket(trim(Placeholder.payload))

\* The last step was an edit event that started a lookup.
LookupStarted == ev.op = "edit" /\ ev.pass = "lookup" /\ started = ev.started0 + 1

----------------------------------------------------------------------------
(* C11 *)

\* C11: an edit event that completes a placeholder whose payload has the ticket-key
\* format, with the cursor directly after the closing brackets and a lookup client
\* configured, goes through the expansion protocol: it starts a lookup.
C11_TicketKeyExpands ==
    (ev.op = "edit" /\ jiraClient /\ CursorAfterPlaceholder /\ TicketPayload) =>
        LookupStarted

----------------------------------------------------------------------------
(* C12 *)

\* The line of the last edit event held an escaped trigger and an unresolved
\* placeholder, the cursor being directly after the closing brackets.
EscapedAndPlaceholderCompleted ==
    /\ ev.op = "edit"
    /\ HasEscaped(ev.line0)
    /\ CursorAfterPlaceholder
    /\ ~TicketPayload

\* C12 as stated: the passes run in the order escape, lookup, literal: on a line with
\* an escaped trigger and an unresolved placeholder, the cursor directly after its
\* closing brackets, the event strips the backslash and starts no lookup.
C12_EscapeBeforeLookup ==
    EscapedAndPlaceholderCompleted =>
        /\ ev.pass = "escape"
        /\ started = ev.started0

\* C12: the passes run in the order lookup, escape, literal: on a line with an
\* escaped trigger and an unresolved placeholder, the cursor directly after its
\* closing brackets, the event starts the lookup and strips no backslash when a
\* client is configured, and strips the backslash and starts no lookup when none is.
C12_LookupBeforeEscape ==
    EscapedAndPlaceholderCompleted =>
        IF jiraClient
        THEN /\ LookupStarted
             /\ Occurrences(LineAfter, <<"\\">>) = Occurrences(ev.line0, <<"\\">>)
             /\ HasEscaped(LineAfter)
        ELSE /\ ev.pass = "escape"
             /\ started = ev.started0
             /\ Occurrences(LineAfter, <<"\\">>) < Occurrences(ev.line0, <<"\\">>)

\* An edit event started a lookup on a line that holds an escaped trigger, which is
\* still escaped after the event.
C12_Witness ==
    /\ EscapedAndPlaceholderCompleted
    /\ LookupStarted
    /\ HasEscaped(LineAfter)

----------------------------------------------------------------------------
(* C13 *)

\* The line of the last edit event has a placeholder whose payload does not look
\* like a resolved ticket reference, and the character before the cursor is "]" or
\* a space.
UnresolvedAndFinished ==
    /\ Placeholder.index >= 0
    /\ ~TicketPayload
    /\ ev.ch0 \in 1..Len(ev.line0)
    /\ ev.line0[ev.ch0] \in {"]", " "}

\* The cursor of the last edit event was within the span of the placeholder, its
\* two ends included.
CursorInPlaceholder == Placeholder.index <= ev.ch0 /\ ev.ch0 <= PlaceholderEnd

\* C13 as stated: with a client and no escaped trigger on the line, an edit event
\* starts a lookup whenever the line has an unresolved placeholder and the character
\* before the cursor is "]" or a space, wherever the cursor lies on the line, and
\* starts none otherwise.
C13_LookupAnywhere ==
    (ev.op = "edit" /\ jiraClient /\ ~HasEscaped(ev.line0)) =>
        IF UnresolvedAndFinished THEN LookupStarted
        ELSE ev.pass # "lookup" /\ started = ev.started0

\* C13: with a client and no escaped trigger on the line, an edit event starts a
\* lookup and ends the event whenever the first placeholder of the line is
\* unresolved, the cursor lies within its span (ends included) and the character
\* before the cursor is "]" or a space, and starts none otherwise.
C13_LookupAtPlaceholder ==
    (ev.op = "edit" /\ jiraClient /\ ~HasEscaped(ev.line0)) =>
        IF UnresolvedAndFinished /\ CursorInPlaceholder
        THEN LookupStarted
        ELSE ev.pass # "lookup" /\ started = ev.started0

\* An edit event with the cursor after a space that follows the placeholder started
\* no lookup.
C13_Witness ==
    /\ ev.op = "edit"
    /\ jiraClient
    /\ ~HasEscaped(ev.line0)
    /\ UnresolvedAndFinished
    /\ ev.ch0 > PlaceholderEnd
    /\ ev.pass # "lookup"

----------------------------------------------------------------------------
(* C14 *)

\* C14 as stated: every edit event performs either exactly one setLine call and
\* exactly one setCursor call, or none of either, and when no pattern applies the
\* line and the cursor are left as they were.
C14_OneWriteOneCursor ==
    ev.op = "edit" =>
        /\ \/ ev.setLines = 1 /\ ev.setCursors = 1
           \/ ev.setLines = 0 /\ ev.setCursors = 0
        /\ ev.setLines = 0 => (LineAfter = ev.line0 /\ cursor.ch = ev.ch0)

\* C14: an edit event whose escape or literal pass acts performs exactly one setLine
\* call and exactly one setCursor call; an edit event that starts a lookup performs
\* one setLine call (the marker) and no setCursor call, and the completion of the
\* lookup performs one more setLine call and no setCursor call; every other edit
\* event performs neither call and leaves the line and the cursor as they were.
C14_WritesPerEvent ==
    /\ ev.op = "edit" =>
          /\ (HasEscaped(ev.line0) /\ ev.pass \notin {"lookup", "ticket"}) =>
                 (ev.pass = "escape" /\ ev.setLines = 1 /\ ev.setCursors = 1)
          /\ ev.pass = "literal" => (ev.setLines = 1 /\ ev.setCursors = 1)
          /\ ev.pass = "lookup" => (ev.setLines = 1 /\ ev.setCursors = 0)
          /\ ev.pass \in {"none", "ticket"} =>
                 /\ ev.setLines = 0 /\ ev.setCursors = 0
                 /\ LineAfter = ev.line0
                 /\ cursor.ch = ev.ch0
          /\ (ev.pass = "none" /\ ~HasEscaped(ev.line0)) => ~HasValid(ev.line0)
    /\ ev.op \in {"resolved", "empty", "failed"} =>
          (ev.setLines = 1 /\ ev.setCursors = 0)

\* An edit event wrote the marker of a lookup and set no cursor.
C14_Witness ==
    /\ LookupStarted
    /\ ev.setLines = 1
    /\ ev.setCursors = 0
    /\ LineAfter # ev.line0

----------------------------------------------------------------------------
(* The user at the keyboard while a lookup is awaited. *)

\* The user types at most this many characters into one line.
MaxTyped == 1

\* The user's Enter keys let the buffer grow to at most this many lines.
MaxBufferLines == 2

\* The character the user types.
TypedChar == "x"

\* The user types a character at the cursor.
UserTypes ==
    LET line == buffer[cursor.line + 1]
        ch == Min(cursor.ch, Len(line))
    IN  /\ Occurrences(line, <<TypedChar>>) < MaxTyped
        /\ buffer' = [buffer EXCEPT ![cursor.line + 1] =
                          substring(line, 0, ch) \o <<TypedChar>> \o substringFrom(line, ch)]
        /\ cursor' = [cursor EXCEPT !.ch = ch + 1]
        /\ unescaped' = NoUnescaped
        /\ ev' = [NoEvent EXCEPT !.op = "user"]
        /\ UNCHANGED <<jiraClient, clientVars, dateFormat, now, pending, started, file, rn>>

\* The user presses Enter at the start of the first line: an empty line comes first
\* and every line's index grows by one.
UserInsertsLine ==
    /\ Len(buffer) < MaxBufferLines
    /\ buffer' = <<<<>>>> \o buffer
    /\ cursor' = [cursor EXCEPT !.line = cursor.line + 1]
    /\ unescaped' = NoUnescaped
    /\ ev' = [NoEvent EXCEPT !.op = "user"]
    /\ UNCHANGED <<jiraClient, clientVars, dateFormat, now, pending, started, file, rn>>

\* The user puts the cursor at the end of a line.
UserMovesCursor ==
    \E l \in 0..(Len(buffer) - 1) :
        /\ cursor' = [line |-> l, ch |-> Len(buffer[l + 1])]
        /\ cursor' # cursor
        /\ ev' = [NoEvent EXCEPT !.op = "user"]
        /\ UNCHANGED <<buffer, jiraClient, clientVars, dateFormat, now, pending, started, unescaped,
                       file, rn>>

\* The lines a lookup is started on.
StaleLines == {SearchPlaceholder, SearchPlaceholder \o AtTag, AtTag \o SearchPlaceholder}

InitStale ==
    /\ buffer \in {<<l>> : l \in StaleLines}
    /\ cursor \in {[line |-> 0, ch |-> c] : c \in 0..Len(buffer[1])}
    /\ jiraClient = TRUE
    /\ InitClient
    /\ dateFormat \in DateFormats
    /\ now = Today
    /\ pending = <<>>
    /\ started = 0
    /\ unescaped = NoUnescaped
    /\ ev = NoEvent
    /\ file = NoFile
    /\ rn = NoRename

NextStale ==
    \/ EditorChangeStep
    \/ LookupResolved
    \/ LookupEmpty
    \/ LookupFailed
    \/ UserTypes
    \/ UserInsertsLine
    \/ UserMovesCursor

\* The editor with a user who edits while lookups are awaited.
SpecStale == InitStale /\ [][NextStale]_vars

----------------------------------------------------------------------------
(* C15 *)

\* The marker line the expansion wrote for the lookup that last completed.
MarkerLine == replaceString(ev.captured, ev.match0, loadingText(ev.term))

\* C15: a lookup that completes with a result or with none writes at the line index
\* captured when the expansion started a text made from the line captured then,
\* whatever the line at that index holds by now: there is no content check, and an
\* edit made to that line in between is lost.
C15_StaleWrite ==
    /\ ev.op = "empty" => LineAfter = ev.captured
    /\ ev.op = "resolved" =>
          \E i \in 1..Len(ev.issues) :
              LineAfter = replaceString(ev.captured, ev.match0, linkText(ev.issues[i]))

\* A lookup returned nothing after the user had put a line before the target line
\* and typed into the line now at the captured index: that line, no longer the
\* marker line, was overwritten by the captured text.
C15_Witness ==
    /\ ev.op = "empty"
    /\ Len(buffer) > 1
    /\ ev.line0 # MarkerLine
    /\ ev.line0 # ev.captured
    /\ Occurrences(ev.line0, <<TypedChar>>) > 0
    /\ LineAfter = ev.captured

----------------------------------------------------------------------------
(* C16 *)

\* The last edit event completed an unresolved placeholder while no client was
\* configured.
CompletedWithoutClient ==
    /\ ev.op = "edit"
    /\ ~jiraClient
    /\ UnresolvedAndFinished
    /\ CursorInPlaceholder

\* C16 as stated: when an edit event completes an unresolved placeholder while no
\* lookup client is configured, a notice is shown.
C16_NoticeWithoutClient ==
    CompletedWithoutClient => Len(ev.notices) >= 1

\* C16: when an edit event completes an unresolved placeholder while no lookup client
\* is configured, no notice is shown and no lookup is started: the lookup pass is
\* skipped and the event goes on to the escape pass and the literal pass.
C16_SilentWithoutClient ==
    CompletedWithoutClient =>
        /\ ev.notices = <<>>
        /\ started = ev.started0
        /\ pending = <<>>
        /\ ev.pass = IF HasEscaped(ev.line0) THEN "escape"
                     ELSE IF HasValid(ev.line0) THEN "literal"
                     ELSE "none"

\* Without a client, an edit event with the cursor directly after a completed
\* placeholder replaced a trigger on the line and left the placeholder as it was.
C16_Witness ==
    /\ CompletedWithoutClient
    /\ CursorAfterPlaceholder
    /\ ev.pass = "literal"
    /\ jiraPatternMatch(LineAfter).text = Placeholder.text

----------------------------------------------------------------------------
(* formatDate on its own. *)

\* The dates and the values of settings.dateFormat formatDate is applied to: the five
\* kinds of the settings tab, a kind the switch does not know, and a missing one.
FormatYears == {7, 999, 1000, 2025, 9999, 10000}

FormatDays == {1, 9, 10, 28}

FormatDates == {[year |-> y, month |-> m, day |-> d] :
                   y \in FormatYears, m \in 0..11, d \in FormatDays}

KnownKinds == {"YYYY-MM-DD", "MM-DD-YYYY", "DD-MM-YYYY", "MM/DD/YYYY", "DD/MM/YYYY"}

FormatKinds == KnownKinds \cup {"DD.MM.YYYY", ""}

InitFormat ==
    /\ buffer = <<<<>>>>
    /\ cursor = [line |-> 0, ch |-> 0]
    /\ jiraClient = FALSE
    /\ InitClient
    /\ dateFormat \in FormatKinds
    /\ now \in FormatDates
    /\ pending = <<>>
    /\ started = 0
    /\ unescaped = NoUnescaped
    /\ ev = NoEvent
    /\ file = NoFile
    /\ rn = NoRename

\* this.formatDate(new Date())
FormatDate ==
    /\ ev' = [NoEvent EXCEPT !.op = "formatDate", !.text = formatDate(now, dateFormat)]
    /\ UNCHANGED <<buffer, cursor, jiraClient, clientVars, dateFormat, now, pending, started,
                   unescaped, file, rn>>

NextFormat == FormatDate

SpecFormat == InitFormat /\ [][NextFormat]_vars

----------------------------------------------------------------------------
(* C17 *)

\* The digits of n at the given width, zeros first.
RECURSIVE Padded(_, _)
Padded(n, width) ==
    IF width = 0 THEN <<>> ELSE Padded(n \div 10, width - 1) \o <<DigitOf(n % 10)>>

\* The layout of a kind for a year, a month and a day written at fixed width.
FixedLayout(kind, date) ==
    LET y == Padded(date.year, 4)
        m == Padded(date.month + 1, 2)
        d == Padded(date.day, 2)
    IN  CASE kind = "MM-DD-YYYY" -> m \o <<"-">> \o d \o <<"-">> \o y
          [] kind = "DD-MM-YYYY" -> d \o <<"-">> \o m \o <<"-">> \o y
          [] kind = "MM/DD/YYYY" -> m \o <<"/">> \o d \o <<"/">> \o y
          [] kind = "DD/MM/YYYY" -> d \o <<"/">> \o m \o <<"/">> \o y
          [] OTHER -> y \o <<"-">> \o m \o <<"-">> \o d

\* C17 as stated: for every date and every kind formatDate returns exactly 10
\* characters, a 4-digit year, a 2-digit month and a 2-digit day in the order and
\* with the separator of the kind, an unknown or missing kind giving YYYY-MM-DD.
C17_FixedWidth ==
    ev.op = "formatDate" =>
        /\ Len(ev.text) = 10
        /\ ev.text = FixedLayout(dateFormat, now)

\* C17: for every date whose year has four digits and every kind formatDate returns
\* exactly 10 characters in the layout of the kind, an unknown or missing kind giving
\* YYYY-MM-DD; the year is written without padding, so for any year the length is 6
\* plus the number of digits of the year.
C17_FixedWidthFourDigitYear ==
    ev.op = "formatDate" =>
        /\ (now.year >= 1000 /\ now.year <= 9999) =>
               (Len(ev.text) = 10 /\ ev.text = FixedLayout(dateFormat, now))
        /\ Len(ev.text) = 6 + (IF now.year < 10 THEN 1 ELSE IF now.year < 100 THEN 2
                               ELSE IF now.year < 1000 THEN 3
                               ELSE IF now.year < 10000 THEN 4 ELSE 5)

\* A date of September 2025 was formatted for a kind the switch does not know.
C17_Witness ==
    /\ ev.op = "formatDate"
    /\ dateFormat \notin KnownKinds
    /\ now.year = 2025
    /\ now.month = 8
    /\ now.day = 1
    /\ ev.text = <<"2", "0", "2", "5", "-", "0", "9", "-", "0", "1">>

----------------------------------------------------------------------------
(* The literal pass on lines made for the word boundaries of the patterns. *)

\* The lines hold at most this many of the segments below.
MaxBoundarySegs == 3

BoundarySegs == {BraceCall, BareCall, AtTag, <<"x">>, <<"_">>, <<"1">>, <<" ">>}

BoundaryLines == Concats(BoundarySegs, MaxBoundarySegs)

InitBoundary ==
    /\ buffer \in {<<l>> : l \in BoundaryLines}
    /\ cursor \in {[line |-> 0, ch |-> c] : c \in 0..Len(buffer[1])}
    /\ jiraClient = FALSE
    /\ InitClient
    /\ dateFormat \in DateFormats
    /\ now = Today
    /\ pending = <<>>
    /\ started = 0
    /\ unescaped = NoUnescaped
    /\ ev = NoEvent
    /\ file = NoFile
    /\ rn = NoRename

NextBoundary == EditorChangeStep

SpecBoundary == InitBoundary /\ [][NextBoundary]_vars

----------------------------------------------------------------------------
(* C18 *)

\* The offsets of the today() of the line the last edit event read that directly
\* follow a word character, of those at the start of the line or after a space, and
\* of the @today that a word character directly follows.
BareCallsAfterWord ==
    {i \in 1..(Len(ev.line0) - 1) : IsAt(ev.line0, i, BareCall) /\ IsWordChar(ev.line0[i])}

BareCallsAtStart ==
    {i \in 0..(Len(ev.line0) - 1) :
        IsAt(ev.line0, i, BareCall) /\ (i = 0 \/ IsSpace(ev.line0[i]))}

AtTagsBeforeWord ==
    {i \in 0..(Len(ev.line0) - Len(AtTag) - 1) :
        IsAt(ev.line0, i, AtTag) /\ IsWordChar(ev.line0[i + Len(AtTag) + 1])}

\* The text pat that stood at offset i of the line before the last edit event is
\* still in its place after it.
StillInPlace(i, pat) ==
    IF ev.pass = "literal" THEN IsAt(LineAfter, OffsetAfter(ev.kind, i), pat)
    ELSE LineAfter = ev.line0

\* C18: a today() that directly follows a word character is never replaced by the
\* literal pass, nor is an @today that a word character directly follows; a today()
\* at the start of the line or after a space is replaced by the date whenever the
\* literal pass acts for today(), which it does when the event reaches it and the
\* line holds no valid {{today()}}.
C18_WordBoundaries ==
    (ev.op = "edit" /\ ev.pass \in {"none", "ticket", "literal"}) =>
        /\ \A i \in BareCallsAfterWord : StillInPlace(i, BareCall)
        /\ \A i \in AtTagsBeforeWord : StillInPlace(i, AtTag)
        /\ (ev.pass = "literal" /\ ev.kind = 2) =>
               \A i \in BareCallsAtStart : IsAt(LineAfter, OffsetAfter(2, i), DateText)
        /\ (ev.pass # "ticket" /\ BareCallsAtStart # {} /\ ValidStarts(1, ev.line0) = {}) =>
               (ev.pass = "literal" /\ ev.kind = 2)

\* The literal pass replaced a today() at the start of the line or after a space
\* and left alone a today() that follows a word character.
C18_Witness ==
    /\ ev.op = "edit"
    /\ ev.pass = "literal"
    /\ ev.kind = 2
    /\ BareCallsAfterWord # {}
    /\ BareCallsAtStart # {}
    /\ \A i \in BareCallsAtStart : IsAt(LineAfter, OffsetAfter(2, i), DateText)
    /\ \A i \in BareCallsAfterWord : IsAt(LineAfter, OffsetAfter(2, i), BareCall)

----------------------------------------------------------------------------
(* C19 *)

\* The offsets of the line the last edit event read that lie in no valid occurrence
\* of the trigger its literal pass replaced.
OutsideOccurrences ==
    {i \in 0..(Len(ev.line0) - 1) :
        \A j \in ValidStarts(ev.kind, ev.line0) :
            i < j \/ i >= j + Len(BareText(ev.kind))}

\* C19: the literal pass of one edit event replaces every valid occurrence of the
\* trigger it acts for in one write of the line: the formatted date stands where
\* each occurrence stood, shifted by the growth of the occurrences before it, every
\* character outside the occurrences is kept at its shifted place, and the line has
\* grown by the difference of the two lengths once for each occurrence.
C19_AllOccurrencesReplaced ==
    (ev.op = "edit" /\ ev.pass = "literal") =>
        LET S == ValidStarts(ev.kind, ev.line0)
        IN  /\ S # {}
            /\ ev.setLines = 1
            /\ Len(LineAfter) =
                   Len(ev.line0) + Cardinality(S) * (Len(DateText) - Len(BareText(ev.kind)))
            /\ \A i \in S : IsAt(LineAfter, OffsetAfter(ev.kind, i), DateText)
            /\ \A i \in OutsideOccurrences :
                   LineAfter[OffsetAfter(ev.kind, i) + 1] = ev.line0[i + 1]

\* The literal pass replaced two valid occurrences of a trigger on a line that holds
\* a character between them.
C19_Witness ==
    /\ ev.op = "edit"
    /\ ev.pass = "literal"
    /\ Cardinality(ValidStarts(ev.kind, ev.line0)) = 2
    /\ \E i \in OutsideOccurrences : \E j, l \in ValidStarts(ev.kind, ev.line0) : j < i /\ i < l
    /\ Occurrences(LineAfter, DateText) = 2

----------------------------------------------------------------------------
(* C20 *)

\* The valid occurrences of the trigger the last literal pass replaced that start
\* before the cursor offset, and the shift they add up to.
OccurrencesBeforeCursor == {j \in ValidStarts(ev.kind, ev.line0) : j < ev.ch0}

ShiftBeforeCursor ==
    Cardinality(OccurrencesBeforeCursor) * (Len(DateText) - Len(BareText(ev.kind)))

\* The valid occurrences whose span holds the cursor offset, both ends of the span
\* counted: the cursor may stand directly before or directly after the occurrence.
CursorTouches ==
    {i \in ValidStarts(ev.kind, ev.line0) :
        i <= ev.ch0 /\ ev.ch0 <= i + Len(BareText(ev.kind))}

----------------------------------------------------------------------------
(* C21 *)

\* The last step was an edit event whose escape or literal pass rewrote the line,
\* read with the cursor within the line.
RewroteFromWithin ==
    /\ ev.op = "edit"
    /\ ev.pass \in {"escape", "literal"}
    /\ ev.ch0 \in 0..Len(ev.line0)

\* C21: an edit event that rewrites the line, started with the cursor offset between
\* 0 and the length of the old line, passes to setCursor an offset between 0 and the
\* length of the new line.
C21_CursorWithinNewLine ==
    RewroteFromWithin => cursor.ch \in 0..Len(LineAfter)

----------------------------------------------------------------------------
(* The editor with lookups that follow one another on the same line. *)

\* At most this many lookups are started in one behaviour of the specifications
\* below.
MaxMarkerLookups == 2

InitMarker ==
    /\ buffer \in {<<l>> : l \in StaleLines}
    /\ cursor \in {[line |-> 0, ch |-> c] : c \in 0..Len(buffer[1])}
    /\ jiraClient = TRUE
    /\ InitClient
    /\ dateFormat \in DateFormats
    /\ now = Today
    /\ pending = <<>>
    /\ started = 0
    /\ unescaped = NoUnescaped
    /\ ev = NoEvent
    /\ file = NoFile
    /\ rn = NoRename

\* An edit event at any time, a lookup being awaited or not.
EditorChangeAnyTime ==
    /\ EditorChangeUpTo(MaxMarkerLookups)
    /\ UNCHANGED <<jiraClient, clientVars, dateFormat, now, file, rn>>

NextMarker ==
    \/ EditorChangeAnyTime
    \/ LookupResolved
    \/ LookupEmpty
    \/ LookupFailed

SpecMarker == InitMarker /\ [][NextMarker]_vars

\* An edit event while no lookup is awaited: the user leaves the editor alone until
\* the lookup has completed.
EditorChangeWhenIdle ==
    /\ pending = <<>>
    /\ EditorChangeUpTo(MaxMarkerLookups)
    /\ UNCHANGED <<jiraClient, clientVars, dateFormat, now, file, rn>>

NextQuiet ==
    \/ EditorChangeWhenIdle
    \/ LookupResolved
    \/ LookupEmpty
    \/ LookupFailed

\* Every lookup that is awaited completes: searchIssues resolves or rejects.
LookupCompletes == LookupResolved \/ LookupEmpty \/ LookupFailed

SpecQuiet == InitMarker /\ [][NextQuiet]_vars /\ WF_vars(LookupCompletes)

----------------------------------------------------------------------------
(* C22 *)

\* The text s holds the marker suffix ` (searching...)`.
HasMarker(s) == Occurrences(s, SearchingSuffix) > 0

\* No line of the buffer holds the marker suffix.
NoMarkerInBuffer == \A l \in 1..Len(buffer) : ~HasMarker(buffer[l])

\* C22: when every awaited lookup completes and no edit event comes while one is
\* awaited, a started lookup leads to a buffer of which no line holds the marker
\* ` (searching...)`.
C22_MarkerEventuallyRemoved == (pending # <<>>) ~> NoMarkerInBuffer

----------------------------------------------------------------------------
(* C23 *)

\* C23: no edit event starts a lookup whose search term holds the marker suffix
\* ` (searching...)`, whatever the interleaving of edit events and awaited lookups.
C23_TermWithoutMarker ==
    (ev.op = "edit" /\ ev.pass = "lookup") => ~HasMarker(ev.term)

----------------------------------------------------------------------------
(* The editor without a client, each line the handler writes raising the next
   edit event. *)

InitFeedback ==
    /\ buffer \in {<<l>> : l \in Concats(LiteralSegs, MaxSegs)}
    /\ cursor \in {[line |-> 0, ch |-> c] : c \in 0..Len(buffer[1])}
    /\ jiraClient = FALSE
    /\ InitClient
    /\ dateFormat \in DateFormats
    /\ now = Today
    /\ pending = <<>>
    /\ started = 0
    /\ unescaped = NoUnescaped
    /\ ev = NoEvent
    /\ file = NoFile
    /\ rn = NoRename

NextFeedback == EditorChangeStep

SpecFeedback == InitFeedback /\ [][NextFeedback]_vars

----------------------------------------------------------------------------
(* C24 *)

\* The handler has run on the cursor line as it is now and left it alone, and the
\* line holds no escaped trigger and no valid bare trigger.
AtFixedPoint ==
    /\ ev.op = "edit"
    /\ ev.pass = "none"
    /\ ev.line0 = buffer[cursor.line + 1]
    /\ ~HasEscaped(buffer[cursor.line + 1])
    /\ ~HasValid(buffer[cursor.line + 1])

\* The number of places where s holds the word today, plus the number of its
\* backslashes: what a chain of rewrites uses up.
Rank(s) == Occurrences(s, <<"t", "o", "d", "a", "y">>) + Occurrences(s, <<"\\">>)

----------------------------------------------------------------------------
(* The vault with every rename that handleFileRename issues raising the next
   rename event. *)

\* The file names are made of at most this many segments.
MaxChainSegs == 2

\* The vault rejects a rename to a path longer than this.
MaxPathLen == 64

ChainSegs == {<<"$", "&">>, AtTag, EscapedText(3), <<"x">>}

ChainNames == {n \o <<".", "m", "d">> : n \in Concats(ChainSegs, MaxChainSegs)}

\* The folders of a file: the vault's root, a plain folder, and a folder that is
\* called as the file is.
ChainFolders(name) == {<<>>, <<"d", "/">>, name \o <<"/">>}

InitChain ==
    /\ buffer = <<<<>>>>
    /\ cursor = [line |-> 0, ch |-> 0]
    /\ jiraClient = FALSE
    /\ InitClient
    /\ dateFormat \in RenameDateFormats
    /\ now = Today
    /\ pending = <<>>
    /\ started = 0
    /\ unescaped = NoUnescaped
    /\ ev = NoEvent
    /\ file \in UNION {{[name |-> n, path |-> d \o n] : d \in ChainFolders(n)} :
                            n \in ChainNames}
    /\ rn = [NoRename EXCEPT !.event = TRUE]

\* The path handleFileRename passes to vault.rename for the file as it is.
renamePath ==
    replaceString(file.path, file.name,
                  handleFileRename(file.name, formatDate(now, dateFormat)).newName)

\* vault.rename resolves.
ChainRenameOk == Len(renamePath) <= MaxPathLen /\ FileRenameOk

\* vault.rename rejects: the path is too long.
ChainRenameTooLong == Len(renamePath) > MaxPathLen /\ FileRenameFails

NextChain ==
    \/ FileRenameNone
    \/ ChainRenameOk
    \/ ChainRenameTooLong

\* Every rename event is delivered to the handler.
SpecChain == InitChain /\ [][NextChain]_vars /\ WF_vars(NextChain)

----------------------------------------------------------------------------
(* C25 *)

\* C25: the chain of rename events that starts with any file name comes to an event
\* for which the handler finds nothing to replace and issues no rename.
C25_ChainFindsNothingToReplace == <>(rn.op = "none")

----------------------------------------------------------------------------
(* C26 *)

\* The part of the path of the file of the last rename event that comes before the
\* file name: the parent folder with its slash, empty for a file at the root.
ParentPart == substring(rn.path0, 0, Len(rn.path0) - Len(rn.name0))

\* C26: the path handleFileRename passes to vault.rename is the parent part of the
\* path of the file followed by the rewritten name, whatever the parent part holds.
C26_OnlyFinalComponentChanges ==
    rn.op \in {"renamed", "failed"} => rn.newPath = ParentPart \o rn.newName

----------------------------------------------------------------------------
(* JiraClient.searchIssues: the cache of results and its eviction timers. *)

\* At most this many searchIssues calls are made in one behaviour.
MaxSearches == 3

\* The lists of issues a request yields: an empty list is cached as any other.
SearchResults == IssueLists \cup {<<>>}

InitCache ==
    /\ buffer = <<<<>>>>
    /\ cursor = [line |-> 0, ch |-> 0]
    /\ jiraClient = TRUE
    /\ InitClient
    /\ dateFormat \in DateFormats
    /\ now = Today
    /\ pending = <<>>
    /\ started = 0
    /\ unescaped = NoUnescaped
    /\ ev = NoEvent
    /\ file = NoFile
    /\ rn = NoRename

\* searchIssues up to its await: the cached result is returned when the cache holds
\* the key; otherwise the request is sent and awaited.
SearchStarts ==
    \E cacheKey \in CacheKeys :
        /\ calls < MaxSearches
        /\ calls' = calls + 1
        /\ searches' = IF cache[cacheKey] # NoEntry THEN searches
                       ELSE Append(searches, [key |-> cacheKey, call |-> calls + 1])
        /\ UNCHANGED <<cache, timers>>
        /\ UNCHANGED <<edVars, fileVars>>

\* The request of an awaited search yields its issues: they are put in the cache
\* under the key of the search, and the eviction of that key is scheduled.
SearchCompletes ==
    \E i \in 1..Len(searches), issues \in SearchResults :
        LET s == searches[i]
        IN  /\ cache' = [cache EXCEPT ![s.key] = [issues |-> issues, write |-> s.call]]
            /\ timers' = Append(timers, [key |-> s.key, write |-> s.call])
            /\ searches' = RemoveAt(searches, i)
            /\ UNCHANGED calls
            /\ UNCHANGED <<edVars, fileVars>>

\* The request of an awaited search fails: the error is thrown on, nothing is cached.
SearchRejects ==
    \E i \in 1..Len(searches) :
        /\ searches' = RemoveAt(searches, i)
        /\ UNCHANGED <<cache, timers, calls>>
        /\ UNCHANGED <<edVars, fileVars>>

\* The timer scheduled first fires (all timers have the same delay): its callback
\* deletes the key from the cache.
EvictionFires ==
    /\ timers # <<>>
    /\ cache' = [cache EXCEPT ![Head(timers).key] = NoEntry]
    /\ timers' = Tail(timers)
    /\ UNCHANGED <<searches, calls>>
    /\ UNCHANGED <<edVars, fileVars>>

NextCache ==
    \/ SearchStarts
    \/ SearchCompletes
    \/ SearchRejects
    \/ EvictionFires

SpecCache == InitCache /\ [][NextCache]_vars

----------------------------------------------------------------------------
(* C27 *)

\* C27: a step that removes an entry from the cache is the firing of the eviction
\* callback that the write of that entry scheduled.
C27_EvictedByOwnCallback ==
    [][\A k \in CacheKeys :
          (cache[k] # NoEntry /\ cache'[k] = NoEntry) =>
              /\ timers # <<>>
              /\ Head(timers) = [key |-> k, write |-> cache[k].write]]_vars

====
